---------------------------- MODULE Spec2Model ----------------------------
(***************************************************************************)
(* A model of the raster generation pipeline of the favicons package:      *)
(* helpers.ts (source selection, plane rendering, createFavicon, mapAsync) *)
(* and platforms/android.ts (shortcut icons).                              *)
(*                                                                         *)
(* The image engine (sharp) is represented by the geometry of its          *)
(* operations: an image is a record of width, height and channels.         *)
(***************************************************************************)
EXTENDS Integers, Sequences, FiniteSets, TLC

VARIABLES
  platform,     \* process.platform
  sourceset,    \* SourceImage[] handed to bestSource / createPlaneFavicon
  selWidth,     \* bestSource: width argument
  selHeight,    \* bestSource: height argument
  selected,     \* bestSource: returned SourceImage, NoSource before the call
  options,      \* createPlaneFavicon: IconPlaneOptions argument
  raw,          \* createPlaneFavicon: raw argument
  ppc,          \* createPlaneFavicon: position (init, resizing, encoding, done, failed)
  local,        \* createPlaneFavicon: offset, width, height, source, image, canvas, pipeline
  planeResult,  \* createPlaneFavicon: the returned FaviconImage or the error thrown
  name,         \* createFavicon: name argument, a sequence of characters
  iconOptions,  \* createFavicon: IconOptions argument
  fpc,          \* createFavicon: position (init, mapping, direct, done, failed)
  route,        \* createFavicon: branch taken (none, container, direct)
  favResult,    \* createFavicon: the returned FaviconImage or the error thrown
  icoCalls,     \* the argument list of every toIco call, in call order
  inputs,       \* mapAsync: inputs
  tstate,       \* mapAsync: state of the promise of computation(inputs[i], i)
  calls,        \* every createPlaneFavicon call, in call order
  results,      \* mapAsync: result (win32) or the values Promise.all has collected
  settled,      \* indices of the computations, in the order their promises settled
  mapOutcome,   \* mapAsync: state of the promise it returned
  shortcuts,    \* AndroidPlatform: options.shortcuts
  maskable,     \* AndroidPlatform: options.manifestMaskable
  basePath,     \* AndroidPlatform.manifest: basePath
  apc,          \* createImages: position (init, icons, maskable, shortcuts, done, failed)
  icons,        \* createImages: the local icons
  ststate,      \* shortcutIcons: state of the promise of each shortcut's computation
  svalues,      \* shortcutIcons: result (win32) or the values Promise.all has collected
  soutcome,     \* shortcutIcons: state of the promise of its mapAsync
  created,      \* createImages: the returned list, or the error thrown
  manifest      \* manifestShortcuts: the returned list

selVars == <<selWidth, selHeight, selected>>
planeVars == <<options, raw, ppc, local, planeResult>>
favVars == <<name, iconOptions, fpc, route, favResult, icoCalls>>
mapVars == <<inputs, tstate, calls, results, settled, mapOutcome>>

andVars == <<shortcuts, maskable, basePath, apc, icons, ststate, svalues, soutcome,
             created, manifest>>

vars == <<platform, sourceset, selVars, planeVars, favVars, mapVars, andVars>>

(***************************************************************************)
(* Bounds of the model.                                                    *)
(***************************************************************************)
MaxSources == 3
MaxPlaneSide == 4
MaxSizes == 3
MaxPrefixLen == 2
MaxShortcuts == 2

Max(a, b) == IF a >= b THEN a ELSE b
Abs(a) == IF a < 0 THEN -a ELSE a
Range(s) == {s[i] : i \in DOMAIN s}

Platforms == {"win32", "linux"}

(***************************************************************************)
(* Source images.  metadata.format is "svg" for vector sources; data is    *)
(* the buffer, which is what tells two sources with equal metadata apart.  *)
(***************************************************************************)
Formats == {"svg", "png"}
SourceWidths == 1..3
SourceHeights == 1..2
TargetSides == 1..3
Metadata == [format : Formats, width : SourceWidths, height : SourceHeights]
NoSource == [data |-> 0]

SourceSets(maxLen, metas) ==
  UNION {{[i \in 1..n |-> [data |-> i, metadata |-> m[i]]] : m \in [1..n -> metas]}
         : n \in 1..maxLen}

(***************************************************************************)
(* arrayComparator, minBy, minByKey                                        *)
(***************************************************************************)
RECURSIVE arrayComparatorFrom(_, _, _)
arrayComparatorFrom(aArr, bArr, i) ==
  IF i > Max(Len(aArr), Len(bArr)) THEN 0
  ELSE IF i > Len(aArr) THEN -1
  ELSE IF i > Len(bArr) THEN 1
  ELSE IF aArr[i] # bArr[i] THEN (IF aArr[i] < bArr[i] THEN -1 ELSE 1)
  ELSE arrayComparatorFrom(aArr, bArr, i + 1)

arrayComparatorFirstOnly(a, b) ==
  IF a[1] # b[1] THEN (IF a[1] < b[1] THEN -1 ELSE 1) ELSE 0

arrayComparator(a, b) == arrayComparatorFrom(a, b, 1)

\* array.reduce((acc, cur) => (comparator(acc, cur) < 0 ? acc : cur)) with no
\* initial value: acc starts as array[1]; comparator is a function on pairs.
minByKeepsFirst(array, comparator) ==
  LET acc[k \in 1..Len(array)] ==
        IF k = 1 THEN array[1]
        ELSE IF comparator[<<acc[k - 1], array[k]>>] <= 0 THEN acc[k - 1]
             ELSE array[k]
  IN  acc[Len(array)]

minBy(array, comparator) ==
  LET acc[k \in 1..Len(array)] ==
        IF k = 1 THEN array[1]
        ELSE IF comparator[<<acc[k - 1], array[k]>>] < 0 THEN acc[k - 1]
             ELSE array[k]
  IN  acc[Len(array)]

minByKey(array, keyFn) ==
  minBy(array, [p \in Range(array) \X Range(array) |->
                  arrayComparator(keyFn[p[1]], keyFn[p[2]])])

(***************************************************************************)
(* Images.bestSource                                                       *)
(***************************************************************************)
sourceKey(icon, width, height) ==
  LET sideSize == Max(width, height)
      iconSideSize == Max(icon.metadata.width, icon.metadata.height)
  IN  << IF icon.metadata.format = "svg" THEN 0 ELSE 1,
         IF iconSideSize >= sideSize THEN 0 ELSE 1,
         Abs(iconSideSize - sideSize) >>

bestSource(set, width, height) ==
  minByKey(set, [icon \in Range(set) |-> sourceKey(icon, width, height)])

(***************************************************************************)
(* The image engine.  An image is its geometry: width, height, channels.   *)
(***************************************************************************)
Undefined == "<undefined>"
NoImage == [width |-> 0, height |-> 0, channels |-> 0]

\* Math.round(num / den) for den > 0: halves round up.
jsRound(num, den) == (2 * num + den) \div (2 * den)

\* sharp rejects a resize whose width or height is not a positive integer.
resizeArgsValid(width, height) == width > 0 /\ height > 0

\* Images.resize: fit "contain" pads to exactly width x height; vector sources
\* are rasterised with alpha, raster sources get ensureAlpha().
resize(source, width, height, pixelArt) ==
  [width |-> width, height |-> height, channels |-> 4,
   kernel |-> IF source.metadata.format = "svg" THEN "default"
              ELSE IF /\ pixelArt
                      /\ width >= source.metadata.width
                      /\ height >= source.metadata.height
                   THEN "nearest" ELSE "lanczos3"]

createBlankImageNoFalsy(width, height, background) ==
  LET transparent == background = "transparent"
  IN  [width |-> width, height |-> height,
       channels |-> IF transparent THEN 4 ELSE 3]

\* Images.createBlankImage: ensureAlpha() is applied only in the branch that
\* already created 4 channels.
createBlankImage(width, height, background) ==
  LET transparent == background \in {Undefined, ""} \/ background = "transparent"
      image == [width |-> width, height |-> height,
                channels |-> IF transparent THEN 4 ELSE 3]
  IN  IF transparent THEN [image EXCEPT !.channels = 4] ELSE image

\* .composite([{input, left, top}]): the canvas keeps its size.  An overlay the
\* engine refuses surfaces when the pipeline is run (EncodeReject).
composite(canvas, image, left, top) == canvas

\* .rotate(90): a quarter turn exchanges width and height.
rotate90(image) ==
  [image EXCEPT !.width = image.height, !.height = image.width]

(***************************************************************************)
(* Images.createPlaneFavicon                                               *)
(***************************************************************************)
planeOffset(opts) ==
  jsRound(Max(opts.width, opts.height) * opts.offset, 100)

planeInnerSingleOffset(opts) ==
  [width |-> opts.width - planeOffset(opts),
   height |-> opts.height - planeOffset(opts)]

planeInner(opts) ==
  [width |-> opts.width - planeOffset(opts) * 2,
   height |-> opts.height - planeOffset(opts) * 2]

planePipeline(opts, image) ==
  LET canvas == createBlankImage(opts.width, opts.height, opts.background)
      composed == composite(canvas, image, planeOffset(opts), planeOffset(opts))
  IN  IF opts.rotate THEN rotate90(composed) ELSE composed

\* contents: raw pixels with their info, or an encoded png.
planeContents(pipeline, isRaw) ==
  [kind |-> IF isRaw THEN "raw" ELSE "png",
   width |-> pipeline.width, height |-> pipeline.height]

Backgrounds == {Undefined, "", "transparent", "#fff"}
Offsets == {0, 10, 25, 50, 99}
PlaneSides == 1..MaxPlaneSide
PlaneOptions ==
  [width : PlaneSides, height : PlaneSides, offset : Offsets, pixelArt : BOOLEAN,
   background : Backgrounds, transparent : BOOLEAN, rotate : BOOLEAN]

PlaneMetadata ==
  {[format |-> "svg", width |-> 1, height |-> 1],
   [format |-> "png", width |-> 3, height |-> 2]}

NoLocal ==
  [offset |-> 0, width |-> 0, height |-> 0, source |-> NoSource,
   image |-> NoImage, canvas |-> NoImage, pipeline |-> NoImage]
NoResult == [kind |-> "none"]
NoOptions == [width |-> 0]

NoOutcome == [kind |-> "none"]

FavIdle ==
  /\ name = <<>>
  /\ iconOptions = NoOptions
  /\ fpc = "idle"
  /\ route = "none"
  /\ favResult = NoResult
  /\ icoCalls = <<>>
  /\ inputs = <<>>
  /\ tstate = <<>>
  /\ calls = <<>>
  /\ results = <<>>
  /\ settled = <<>>
  /\ mapOutcome = NoOutcome

NoCreated == [kind |-> "none"]

AndroidIdle ==
  /\ shortcuts = <<>>
  /\ maskable = [type |-> "boolean", value |-> FALSE]
  /\ basePath = Undefined
  /\ apc = "idle"
  /\ icons = <<>>
  /\ ststate = <<>>
  /\ svalues = <<>>
  /\ soutcome = NoOutcome
  /\ created = NoCreated
  /\ manifest = <<>>

PlaneIdle ==
  /\ options = NoOptions
  /\ raw = FALSE
  /\ ppc = "idle"
  /\ local = NoLocal
  /\ planeResult = NoResult

SelectIdle ==
  /\ selWidth = 0
  /\ selHeight = 0
  /\ selected = NoSource

InitPlane ==
  /\ platform = "linux"
  /\ sourceset \in SourceSets(2, PlaneMetadata)
  /\ SelectIdle
  /\ options \in PlaneOptions
  /\ raw \in BOOLEAN
  /\ ppc = "init"
  /\ local = NoLocal
  /\ planeResult = NoResult
  /\ FavIdle
  /\ AndroidIdle

\* Lines 305-313: offset, width, height, bestSource, and the call of resize,
\* which rejects at once when its arguments are not positive.
PlaneEnter ==
  /\ ppc = "init"
  /\ LET inner == planeInner(options)
         source == bestSource(sourceset, inner.width, inner.height)
     IN  /\ local' = [local EXCEPT !.offset = planeOffset(options),
                                   !.width = inner.width,
                                   !.height = inner.height,
                                   !.source = source]
         /\ IF resizeArgsValid(inner.width, inner.height)
              THEN ppc' = "resizing" /\ planeResult' = NoResult
              ELSE ppc' = "failed"
                   /\ planeResult' = [kind |-> "error", error |-> "InvalidResizeArguments"]
  /\ UNCHANGED <<platform, sourceset, selVars, options, raw, favVars, mapVars, andVars>>

\* Lines 313-331: the resize resolved; the pipeline is built and its encoding
\* awaited.
ResizeResolve ==
  /\ ppc = "resizing"
  /\ LET image == resize(local.source, local.width, local.height, options.pixelArt)
     IN  local' = [local EXCEPT
                     !.image = image,
                     !.canvas = createBlankImage(options.width, options.height,
                                                 options.background),
                     !.pipeline = planePipeline(options, image)]
  /\ ppc' = "encoding"
  /\ UNCHANGED <<platform, sourceset, selVars, options, raw, planeResult, favVars, mapVars, andVars>>

\* The engine fails the resize.
ResizeReject ==
  /\ ppc = "resizing"
  /\ ppc' = "failed"
  /\ planeResult' = [kind |-> "error", error |-> "ResizeError"]
  /\ UNCHANGED <<platform, sourceset, selVars, options, raw, local, favVars, mapVars, andVars>>

\* Lines 326-333: toBuffer resolved; { name, contents } is returned.
EncodeResolve ==
  /\ ppc = "encoding"
  /\ ppc' = "done"
  /\ planeResult' = [kind |-> "image", contents |-> planeContents(local.pipeline, raw)]
  /\ UNCHANGED <<platform, sourceset, selVars, options, raw, local, favVars, mapVars, andVars>>

\* The engine fails the composite or the encoding.
EncodeReject ==
  /\ ppc = "encoding"
  /\ ppc' = "failed"
  /\ planeResult' = [kind |-> "error", error |-> "EncodeError"]
  /\ UNCHANGED <<platform, sourceset, selVars, options, raw, local, favVars, mapVars, andVars>>

NextPlane ==
  \/ PlaneEnter
  \/ ResizeResolve
  \/ ResizeReject
  \/ EncodeResolve
  \/ EncodeReject

SpecPlane == InitPlane /\ [][NextPlane]_vars

\* The larger and the smaller of two sides, as the claims word them.
LargerSide(w, h) == IF w > h THEN w ELSE h
SmallerSide(w, h) == IF w < h THEN w ELSE h

\* A valid plane specification in the claims' sense.
ValidPlaneSpec ==
  /\ options.width > 0
  /\ options.height > 0
  /\ options.offset >= 0
  /\ options.offset < 100

\* round(max(width, height) * offset / 100), written out independently.
ClaimOffsetPx ==
  LET m == LargerSide(options.width, options.height)
      x == m * options.offset
  IN  IF (x % 100) * 2 >= 100 THEN (x \div 100) + 1 ELSE x \div 100

\* C4 (as claimed): for every valid plane specification the inner dimensions
\* are resizable and the output is exactly width x height, rotated or not.
C4_OutputIsSpecSize ==
  (ppc \notin {"idle", "init"} /\ ValidPlaneSpec) =>
    /\ local.width > 0 /\ local.height > 0
    /\ ppc = "done" =>
         /\ planeResult.contents.width = options.width
         /\ planeResult.contents.height = options.height

\* C4 (amended): the canvas is width x height; an output exists only when
\* 2 * offsetPx is below the smaller side, otherwise the resize is rejected;
\* the output is width x height without rotation and height x width with it.
C4_OutputSizeAmended ==
  (ppc \notin {"idle", "init"} /\ ValidPlaneSpec) =>
    /\ local.offset = ClaimOffsetPx
    /\ local.width = options.width - 2 * ClaimOffsetPx
    /\ local.height = options.height - 2 * ClaimOffsetPx
    /\ 2 * ClaimOffsetPx >= SmallerSide(options.width, options.height)
         => ppc = "failed"
    /\ ppc \in {"encoding", "done"} =>
         /\ local.canvas.width = options.width
         /\ local.canvas.height = options.height
    /\ ppc = "done" =>
         /\ planeResult.contents.width =
              (IF options.rotate THEN options.height ELSE options.width)
         /\ planeResult.contents.height =
              (IF options.rotate THEN options.width ELSE options.height)

\* C4 witness: a non-square plane with a non-zero offset was rendered.
C4_Witness ==
  /\ ppc = "done"
  /\ options.width # options.height
  /\ local.offset > 0
  /\ options.rotate

\* The claim's reading of "no background": absent, empty or "transparent".
ClaimNoBackground == options.background \in {Undefined, "", "transparent"}

\* C9 (as claimed): the canvas has 3 channels only when a non-transparent
\* background is given and the transparent flag is false; otherwise 4.
C9_CanvasChannels ==
  ppc \in {"encoding", "done"} =>
    local.canvas.channels =
      (IF ClaimNoBackground \/ options.transparent THEN 4 ELSE 3)

\* C9 (amended): the canvas has 4 channels when the background is absent,
\* empty or "transparent" and 3 channels for every other background, whatever
\* the transparent flag says.
C9_CanvasChannelsAmended ==
  ppc \in {"encoding", "done"} =>
    local.canvas.channels = (IF ClaimNoBackground THEN 4 ELSE 3)

\* C9 witness: a canvas was built for a coloured background with the
\* transparent flag set.
C9_Witness ==
  /\ ppc \in {"encoding", "done"}
  /\ options.background = "#fff"
  /\ options.transparent
  /\ local.canvas.channels = 3

(***************************************************************************)
(* path.extname (posix): the loop of Node's implementation, scanning the   *)
(* path from its end.  Positions are JavaScript's, from 0; -1 is "unset".  *)
(***************************************************************************)
RECURSIVE extnameScan(_, _, _)
extnameScan(path, i, st) ==
  IF i < 0 THEN st
  ELSE LET code == path[i + 1] IN
    IF code = "/"
      THEN IF ~st.matchedSlash
             THEN [st EXCEPT !.startPart = i + 1]
             ELSE extnameScan(path, i - 1, st)
      ELSE LET st1 == IF st.end = -1
                        THEN [st EXCEPT !.matchedSlash = FALSE, !.end = i + 1]
                        ELSE st
               st2 == IF code = "."
                        THEN IF st1.startDot = -1
                               THEN [st1 EXCEPT !.startDot = i]
                               ELSE [st1 EXCEPT !.preDotState = 1]
                        ELSE IF st1.startDot # -1
                               THEN [st1 EXCEPT !.preDotState = -1]
                               ELSE st1
           IN  extnameScan(path, i - 1, st2)

extname(path) ==
  LET st == extnameScan(path, Len(path) - 1,
                        [startDot |-> -1, startPart |-> 0, end |-> -1,
                         matchedSlash |-> TRUE, preDotState |-> 0])
  IN  IF \/ st.startDot = -1
         \/ st.end = -1
         \/ st.preDotState = 0
         \/ /\ st.preDotState = 1
            /\ st.startDot = st.end - 1
            /\ st.startDot = st.startPart + 1
        THEN <<>>
        ELSE SubSeq(path, st.startDot + 1, st.end)

DotIco == <<".", "i", "c", "o">>

(***************************************************************************)
(* JavaScript values of the option fields: a string, a boolean, a number   *)
(* or undefined.                                                           *)
(***************************************************************************)
JsUndefined == [type |-> "undefined"]
JsString(x) == [type |-> "string", value |-> x]
JsBoolean(x) == [type |-> "boolean", value |-> x]
JsNumber(x) == [type |-> "number", value |-> x]

asString(arg) == IF arg.type = "string" THEN arg.value ELSE Undefined

\* a ?? b
orElse(arg, default) == IF arg.type = "undefined" THEN default ELSE arg.value

flattenIconOptions(iconOpts) ==
  [i \in 1..Len(iconOpts.sizes) |->
     [width |-> iconOpts.sizes[i].width,
      height |-> iconOpts.sizes[i].height,
      offset |-> orElse(iconOpts.offset, 0),
      pixelArt |-> orElse(iconOpts.pixelArt, FALSE),
      background |-> asString(iconOpts.background),
      transparent |-> iconOpts.transparent,
      rotate |-> iconOpts.rotate]]

(***************************************************************************)
(* createPlaneFavicon as one computation: whether its resize is accepted,  *)
(* and the FaviconImage it resolves to.                                    *)
(***************************************************************************)
planeAccepted(opts) ==
  resizeArgsValid(planeInner(opts).width, planeInner(opts).height)

createPlaneFaviconValue(set, opts, nm, isRaw) ==
  LET inner == planeInner(opts)
      source == bestSource(set, inner.width, inner.height)
      image == resize(source, inner.width, inner.height, opts.pixelArt)
  IN  [name |-> nm, contents |-> planeContents(planePipeline(opts, image), isRaw)]

rawdataName(props) == <<props.width, "x", props.height, ".rawdata">>

\* The computation createFavicon hands to mapAsync (lines 344-350).
planeComputation(set, props) ==
  createPlaneFaviconValue(set, props, rawdataName(props), TRUE)

renderError(i, opts) ==
  [task |-> i,
   error |-> IF planeAccepted(opts) THEN "RenderError" ELSE "InvalidResizeArguments"]

(***************************************************************************)
(* toIco (./ico): the container of the planes in the order supplied.       *)
(***************************************************************************)
toIco(planes) == [kind |-> "ico", entries |-> planes]

icoPlanesReversed(images) ==
  [i \in 1..Len(images) |-> images[Len(images) + 1 - i].contents]

\* images.map((image) => image.contents as RawImage)
icoPlanes(images) == [i \in 1..Len(images) |-> images[i].contents]

(***************************************************************************)
(* createFavicon: the branch (line 343)                                    *)
(***************************************************************************)
faviconRouteMoreThanOne(nm, properties) ==
  IF extname(nm) = DotIco \/ Len(properties) > 1 THEN "container" ELSE "direct"

faviconRoute(nm, properties) ==
  IF extname(nm) = DotIco \/ Len(properties) # 1 THEN "container" ELSE "direct"

(***************************************************************************)
(* mapAsync                                                                *)
(***************************************************************************)
NoValue == [name |-> <<>>]
Pending == [kind |-> "pending"]
Resolved(v) == [kind |-> "resolved", value |-> v]
Rejected(e) == [kind |-> "rejected", error |-> e]

mapAsyncAlwaysConcurrent(plat) == FALSE

\* platform === "win32"
mapAsyncSequential(plat) == plat = "win32"

\* The computations called before mapAsync first yields: the first one of the
\* for loop, or all of inputs.map(computation).
mapAsyncInitialStarts(plat, n) ==
  IF mapAsyncSequential(plat) THEN (IF n > 0 THEN {1} ELSE {}) ELSE 1..n

\* The state of a promise of createPlaneFavicon right after the call: a resize
\* with invalid arguments has rejected it before anything else runs.
startedState(opts) == IF planeAccepted(opts) THEN "running" ELSE "rejected"

promiseAllStoreNextSlot(vals, i, v) ==
  LET k == CHOOSE j \in DOMAIN vals :
             vals[j] = NoValue /\ \A l \in DOMAIN vals : vals[l] = NoValue => j <= l
  IN  [vals EXCEPT ![k] = v]

\* Promise.all keeps the value of the i-th promise at position i.
promiseAllStore(vals, i, v) == [vals EXCEPT ![i] = v]

promiseRejectLastWins(outcome, e) == Rejected(e)

\* A promise settles once: a later rejection changes nothing.
promiseReject(outcome, e) ==
  IF outcome.kind = "pending" THEN Rejected(e) ELSE outcome

promiseAllResolve(outcome, states, vals) ==
  IF outcome.kind = "pending" /\ \A j \in DOMAIN states : states[j] = "fulfilled"
    THEN Resolved(vals) ELSE outcome

SeqMin(S) == CHOOSE x \in S : \A y \in S : x <= y
RECURSIVE SortedSeq(_)
SortedSeq(S) == IF S = {} THEN <<>> ELSE <<SeqMin(S)>> \o SortedSeq(S \ {SeqMin(S)})

\* createFavicon after "await mapAsync(...)" (lines 352-357): toIco on success,
\* the rejection passed on otherwise.
FaviconContinue(outcome) ==
  IF outcome.kind = "resolved"
    THEN /\ icoCalls' = Append(icoCalls, icoPlanes(outcome.value))
         /\ favResult' = [kind |-> "image", name |-> name,
                          contents |-> toIco(icoPlanes(outcome.value))]
         /\ fpc' = "done"
    ELSE IF outcome.kind = "rejected"
      THEN /\ icoCalls' = icoCalls
           /\ favResult' = [kind |-> "error", error |-> outcome.error]
           /\ fpc' = "failed"
      ELSE /\ icoCalls' = icoCalls
           /\ favResult' = favResult
           /\ fpc' = "mapping"

\* createFavicon up to its first await (lines 341-351, 360).
CreateFaviconCall ==
  /\ fpc = "init"
  /\ LET properties == flattenIconOptions(iconOptions)
         n == Len(properties)
         taken == faviconRoute(name, properties)
     IN
     /\ route' = taken
     /\ IF taken = "container"
          THEN LET starts == mapAsyncInitialStarts(platform, n)
                   states == [i \in 1..n |-> IF i \in starts
                                               THEN startedState(properties[i])
                                               ELSE "idle"]
                   failed == {i \in starts : states[i] = "rejected"}
                   outcome == IF n = 0 THEN Resolved(<<>>)
                              ELSE IF failed # {}
                                THEN Rejected(renderError(SeqMin(failed),
                                                          properties[SeqMin(failed)]))
                                ELSE Pending
               IN  /\ inputs' = properties
                   /\ tstate' = states
                   /\ calls' = [k \in 1..Cardinality(starts) |->
                                  [input |-> properties[k], index |-> k - 1, raw |-> TRUE]]
                   /\ results' = IF mapAsyncSequential(platform) THEN <<>>
                                 ELSE [i \in 1..n |-> NoValue]
                   /\ settled' = SortedSeq(failed)
                   /\ mapOutcome' = outcome
                   /\ FaviconContinue(outcome)
          ELSE LET first == IF n >= 1 THEN properties[1] ELSE NoOptions
                   state == IF n >= 1 THEN startedState(first) ELSE "rejected"
               IN  /\ inputs' = inputs
                   /\ tstate' = <<state>>
                   /\ calls' = <<[input |-> first, index |-> -1, raw |-> FALSE]>>
                   /\ results' = results
                   /\ settled' = settled
                   /\ mapOutcome' = mapOutcome
                   /\ icoCalls' = icoCalls
                   /\ IF state = "running"
                        THEN fpc' = "direct" /\ favResult' = favResult
                        ELSE /\ fpc' = "failed"
                             /\ favResult' =
                                  [kind |-> "error",
                                   error |-> IF n >= 1 THEN renderError(1, first)
                                             ELSE [task |-> 1, error |-> "TypeError"]]
  /\ UNCHANGED <<platform, sourceset, selVars, planeVars, andVars, name, iconOptions>>

\* The computation for inputs[i] resolves.  win32: result.push, index++, and the
\* loop calls the next computation or returns.  Elsewhere: Promise.all stores
\* the value and resolves when it was the last one.
TaskFulfil(i) ==
  /\ route = "container"
  /\ tstate[i] = "running"
  /\ LET v == planeComputation(sourceset, calls[i].input)
         n == Len(inputs)
     IN
     IF mapAsyncSequential(platform)
       THEN LET pushed == Append(results, v)
                more == i < n
                nextState == IF more THEN startedState(inputs[i + 1]) ELSE "idle"
                outcome == IF ~more THEN Resolved(pushed)
                           ELSE IF nextState = "rejected"
                             THEN promiseReject(mapOutcome,
                                                renderError(i + 1, inputs[i + 1]))
                             ELSE mapOutcome
            IN  /\ results' = pushed
                /\ tstate' = IF more
                               THEN [tstate EXCEPT ![i] = "fulfilled", ![i + 1] = nextState]
                               ELSE [tstate EXCEPT ![i] = "fulfilled"]
                /\ calls' = IF more
                              THEN Append(calls, [input |-> inputs[i + 1],
                                                  index |-> i, raw |-> TRUE])
                              ELSE calls
                /\ settled' = IF more /\ nextState = "rejected"
                                   THEN settled \o <<i, i + 1>> ELSE Append(settled, i)
                /\ mapOutcome' = outcome
                /\ IF mapOutcome.kind = "pending"
                     THEN FaviconContinue(outcome)
                     ELSE UNCHANGED <<icoCalls, favResult, fpc>>
       ELSE LET states == [tstate EXCEPT ![i] = "fulfilled"]
                vals == promiseAllStore(results, i, v)
                outcome == promiseAllResolve(mapOutcome, states, vals)
            IN  /\ results' = vals
                /\ tstate' = states
                /\ calls' = calls
                /\ settled' = Append(settled, i)
                /\ mapOutcome' = outcome
                /\ IF mapOutcome.kind = "pending"
                     THEN FaviconContinue(outcome)
                     ELSE UNCHANGED <<icoCalls, favResult, fpc>>
  /\ UNCHANGED <<platform, sourceset, selVars, planeVars, andVars, name, iconOptions, route, inputs>>

\* The computation for inputs[i] rejects: the engine failed its resize,
\* composite or encoding.  mapAsync rejects unless it already has.
TaskReject(i) ==
  /\ route = "container"
  /\ tstate[i] = "running"
  /\ LET outcome == promiseReject(mapOutcome, renderError(i, inputs[i]))
     IN  /\ tstate' = [tstate EXCEPT ![i] = "rejected"]
         /\ settled' = Append(settled, i)
         /\ mapOutcome' = outcome
         /\ IF mapOutcome.kind = "pending"
              THEN FaviconContinue(outcome)
              ELSE UNCHANGED <<icoCalls, favResult, fpc>>
  /\ UNCHANGED <<platform, sourceset, selVars, planeVars, andVars, name, iconOptions, route,
                 inputs, calls, results>>

\* Line 360: the single plane resolves and is returned as it is.
DirectResolve ==
  /\ route = "direct"
  /\ tstate[1] = "running"
  /\ tstate' = <<"fulfilled">>
  /\ fpc' = "done"
  /\ favResult' = [kind |-> "image", name |-> name,
                   contents |-> createPlaneFaviconValue(sourceset, calls[1].input,
                                                        name, FALSE).contents]
  /\ UNCHANGED <<platform, sourceset, selVars, planeVars, andVars, name, iconOptions, route,
                 icoCalls, inputs, calls, results, settled, mapOutcome>>

\* Line 360: the single plane rejects.
DirectReject ==
  /\ route = "direct"
  /\ tstate[1] = "running"
  /\ tstate' = <<"rejected">>
  /\ fpc' = "failed"
  /\ favResult' = [kind |-> "error", error |-> renderError(1, calls[1].input)]
  /\ UNCHANGED <<platform, sourceset, selVars, planeVars, andVars, name, iconOptions, route,
                 icoCalls, inputs, calls, results, settled, mapOutcome>>

NextFav ==
  \/ CreateFaviconCall
  \/ \E i \in DOMAIN tstate : TaskFulfil(i)
  \/ \E i \in DOMAIN tstate : TaskReject(i)
  \/ DirectResolve
  \/ DirectReject

(***************************************************************************)
(* Inputs of createFavicon.                                                *)
(***************************************************************************)
FavSizes == {[width |-> 1, height |-> 1], [width |-> 2, height |-> 1]}
SizeLists(sizes) == UNION {[1..n -> sizes] : n \in 0..MaxSizes}

FavIconOptions ==
  [sizes : SizeLists(FavSizes),
   offset : {JsUndefined, JsNumber(25)},
   pixelArt : {JsUndefined},
   background : {JsBoolean(FALSE)},
   transparent : {TRUE},
   rotate : BOOLEAN]

FavNames == {<<"a", ".", "i", "c", "o">>, <<"a", ".", "p", "n", "g">>}

NamePrefixes == UNION {[1..n -> {"a", ".", "/"}] : n \in 0..MaxPrefixLen}
NameSuffixes ==
  {<<>>, DotIco, <<".", "p", "n", "g">>, <<"i", "c", "o">>, <<".", "i", "c", "o", "/">>,
   <<".", "i", "c", "o", ".", "p", "n", "g">>, <<".", "I", "C", "O">>,
   <<".", "i", "c", "o", "/", "a">>}
RouteNames == {p \o x : p \in NamePrefixes, x \in NameSuffixes}

RouteIconOptions ==
  [sizes : SizeLists({[width |-> 1, height |-> 1]}),
   offset : {JsUndefined},
   pixelArt : {JsUndefined},
   background : {JsBoolean(FALSE)},
   transparent : {TRUE},
   rotate : {FALSE}]

FavStart ==
  /\ sourceset \in SourceSets(1, PlaneMetadata)
  /\ SelectIdle
  /\ PlaneIdle
  /\ AndroidIdle
  /\ fpc = "init"
  /\ route = "none"
  /\ favResult = NoResult
  /\ icoCalls = <<>>
  /\ inputs = <<>>
  /\ tstate = <<>>
  /\ calls = <<>>
  /\ results = <<>>
  /\ settled = <<>>
  /\ mapOutcome = NoOutcome

InitFav ==
  /\ platform \in Platforms
  /\ name \in FavNames
  /\ iconOptions \in FavIconOptions
  /\ FavStart

InitRoute ==
  /\ platform \in Platforms
  /\ name \in RouteNames
  /\ iconOptions \in RouteIconOptions
  /\ FavStart

SpecFav == InitFav /\ [][NextFav]_vars

SpecRoute == InitRoute /\ [][NextFav]_vars

\* The indices of the rejected computations, in the order they rejected.
Rejections == SelectSeq(settled, LAMBDA i : tstate[i] = "rejected")

InputOrder(n) == [k \in 1..n |-> k]

\* What the computation yields for input i, from the plane geometry: the
\* canvas size, turned when the plane is rotated.
ClaimPlane(props) ==
  [name |-> <<props.width, "x", props.height, ".rawdata">>,
   contents |-> [kind |-> "raw",
                 width |-> IF props.rotate THEN props.height ELSE props.width,
                 height |-> IF props.rotate THEN props.width ELSE props.height]]

\* C1: in both scheduling modes and for every completion order, a resolved
\* mapAsync returns a list as long as the input whose element i is the result
\* of the computation for input i, which was called with index i.
C1_ResultsMatchInputs ==
  (route = "container" /\ mapOutcome.kind = "resolved") =>
    /\ Len(mapOutcome.value) = Len(inputs)
    /\ Len(calls) = Len(inputs)
    /\ \A i \in 1..Len(inputs) :
         /\ calls[i].input = inputs[i]
         /\ calls[i].index = i - 1
         /\ mapOutcome.value[i] = ClaimPlane(inputs[i])

\* C1 witness: a concurrent batch of differing inputs resolved although its
\* computations finished out of input order.
C1_Witness ==
  /\ route = "container"
  /\ mapOutcome.kind = "resolved"
  /\ Len(inputs) >= 3
  /\ inputs[1] # inputs[2]
  /\ settled # InputOrder(Len(inputs))

\* The artifact name's extension denotes the container format: the last path
\* segment, trailing slashes dropped, ends in ".ico" and has a character
\* before that dot.
ClaimIcoExtension ==
  LET nonSlash == {k \in DOMAIN name : name[k] # "/"}
      e == IF nonSlash = {} THEN 0 ELSE CHOOSE k \in nonSlash : \A l \in nonSlash : l <= k
  IN  /\ e >= 5
      /\ SubSeq(name, e - 3, e) = <<".", "i", "c", "o">>
      /\ name[e - 4] # "/"

ClaimDirectRender ==
  /\ Len(calls) = 1
  /\ ~calls[1].raw
  /\ calls[1].input = flattenIconOptions(iconOptions)[1]
  /\ icoCalls = <<>>

ClaimContainerRender ==
  /\ \A k \in DOMAIN calls :
       calls[k].raw /\ calls[k].input = flattenIconOptions(iconOptions)[k]
  /\ fpc = "done" =>
       Len(calls) = Len(iconOptions.sizes) /\ Len(icoCalls) = 1

\* C5 (as claimed): the container path is taken iff the name's extension is the
\* container's or the spec list has more than one entry; otherwise exactly one
\* spec is rendered directly as a png and toIco is never called.
C5_RouteMoreThanOne ==
  fpc \notin {"idle", "init"} =>
    /\ route = "container" <=> (ClaimIcoExtension \/ Len(iconOptions.sizes) > 1)
    /\ route = "direct" => ClaimDirectRender
    /\ route = "container" => ClaimContainerRender

\* C5 (amended): the container path is taken iff the name's extension is the
\* container's or the spec list does not have exactly one entry (an empty list
\* goes to the container encoder); otherwise exactly one spec is rendered
\* directly as a png and toIco is never called.
C5_RouteNotExactlyOne ==
  fpc \notin {"idle", "init"} =>
    /\ route = "container" <=> (ClaimIcoExtension \/ Len(iconOptions.sizes) # 1)
    /\ route = "direct" => ClaimDirectRender
    /\ route = "container" => ClaimContainerRender

\* C5 witness: an empty spec list under a name without the container extension
\* reached the container encoder.
C5_Witness ==
  /\ fpc = "done"
  /\ Len(iconOptions.sizes) = 0
  /\ ~ClaimIcoExtension
  /\ route = "container"
  /\ icoCalls = << <<>> >>

\* C6: in concurrent mode every computation is started before anything is
\* awaited; as soon as one has rejected, mapAsync is rejected with the error of
\* the computation that rejected first in time, while siblings still run and
\* stay able to settle; no result list is returned once one has rejected.
C6_ConcurrentFailFast ==
  (route = "container" /\ platform # "win32") =>
    /\ Len(calls) = Len(inputs)
    /\ \A i \in DOMAIN tstate : tstate[i] # "idle"
    /\ Rejections # <<>> =>
         /\ mapOutcome.kind = "rejected"
         /\ mapOutcome.error.task = Rejections[1]
         /\ favResult.kind = "error"
    /\ mapOutcome.kind = "resolved" =>
         \A i \in DOMAIN tstate : tstate[i] = "fulfilled"
    /\ \A i \in DOMAIN tstate :
         tstate[i] = "running" => (ENABLED TaskFulfil(i)) /\ (ENABLED TaskReject(i))

\* C6 witness: the batch was rejected with the error of computation 2, which
\* failed first; computation 1 failed later and computation 3 still finished.
C6_Witness ==
  /\ route = "container"
  /\ platform # "win32"
  /\ Len(inputs) >= 3
  /\ mapOutcome.kind = "rejected"
  /\ mapOutcome.error.task = 2
  /\ settled = <<2, 1, 3>>
  /\ tstate[1] = "rejected"
  /\ tstate[3] = "fulfilled"

\* C7: on win32 at most one computation is in flight; computation i+1 is
\* started only after computation i has resolved; computations start in input
\* order; after a rejection no later computation is started.
C7_SequentialOneAtATime ==
  (route = "container" /\ platform = "win32") =>
    /\ Cardinality({i \in DOMAIN tstate : tstate[i] = "running"}) <= 1
    /\ \A i \in DOMAIN tstate :
         (i > 1 /\ tstate[i] # "idle") => tstate[i - 1] = "fulfilled"
    /\ \A k \in DOMAIN calls : calls[k].input = inputs[k] /\ calls[k].index = k - 1
    /\ Len(calls) = Cardinality({i \in DOMAIN tstate : tstate[i] # "idle"})
    /\ \A i \in DOMAIN tstate :
         tstate[i] = "rejected" => \A j \in DOMAIN tstate : j > i => tstate[j] = "idle"

\* C7 witness: on win32 the second computation failed after the first had
\* resolved, and the third was never started.
C7_Witness ==
  /\ route = "container"
  /\ platform = "win32"
  /\ Len(inputs) >= 3
  /\ tstate[1] = "fulfilled"
  /\ tstate[2] = "rejected"
  /\ tstate[3] = "idle"
  /\ fpc = "failed"

\* C8: on the container path toIco is called at most once, only when every
\* plane has been rendered, with one raw plane per spec in spec order; when a
\* plane fails toIco is never called and the request fails with that error.
C8_ContainerAllOrNothing ==
  route = "container" =>
    /\ Len(icoCalls) <= 1
    /\ icoCalls # <<>> =>
         /\ \A i \in DOMAIN tstate : tstate[i] = "fulfilled"
         /\ Len(icoCalls[1]) = Len(iconOptions.sizes)
         /\ \A i \in DOMAIN icoCalls[1] :
              icoCalls[1][i] = ClaimPlane(flattenIconOptions(iconOptions)[i]).contents
    /\ Rejections # <<>> =>
         /\ icoCalls = <<>>
         /\ favResult.kind = "error"
         /\ favResult.error.task = Rejections[1]
    /\ favResult.kind = "image" => Len(icoCalls) = 1

\* C8 witness: toIco received three planes of differing sizes whose renders
\* had finished out of spec order.
C8_Witness ==
  /\ route = "container"
  /\ Len(icoCalls) = 1
  /\ Len(icoCalls[1]) >= 3
  /\ icoCalls[1][1] # icoCalls[1][3]
  /\ settled[1] = 3

(***************************************************************************)
(* platforms/android.ts                                                    *)
(***************************************************************************)
\* The sizes of ICONS_OPTIONS, ICONS_OPTIONS_MASKABLE and SHORTCUT_ICONS_OPTIONS,
\* in the order of their keys.
IconSizes == <<36, 48, 72, 96, 144, 192, 256, 384, 512>>
ShortcutSizes == <<36, 48, 72, 96, 144, 192>>

Null == [kind |-> "null"]
Empty == [kind |-> "empty"]
Array(items) == [kind |-> "array", items |-> items]

truthy(x) == x \notin {Undefined, ""}

pngImage(nm, size) ==
  [kind |-> "image", name |-> nm,
   contents |-> [kind |-> "png", width |-> size, height |-> size]]

chromeIcons ==
  [k \in DOMAIN IconSizes |->
     pngImage(<<"android-chrome-", IconSizes[k], "x", IconSizes[k], ".png">>, IconSizes[k])]

maskableIcons ==
  [k \in DOMAIN IconSizes |->
     pngImage(<<"android-chrome-maskable-", IconSizes[k], "x", IconSizes[k], ".png">>,
              IconSizes[k])]

\* `shortcut${index + 1}-${shortcutName}`
shortcutIconName(index, size) == <<"shortcut", index + 1, "-", size, "x", size, ".png">>

\* options.manifestMaskable && typeof options.manifestMaskable !== "boolean"
maskableIsSource(m) ==
  /\ IF m.type = "boolean" THEN m.value ELSE m.type = "string" /\ truthy(m.value)
  /\ m.type # "boolean"

\* The computation of shortcutIcons, lines 128-140: null for a shortcut without
\* name, url or icon, otherwise the images of the inner mapAsync, in the order
\* of SHORTCUT_ICONS_OPTIONS.
shortcutSkipped(shortcut) ==
  ~truthy(shortcut.name) \/ ~truthy(shortcut.url) \/ ~truthy(shortcut.icon)

shortcutValue(shortcut, index) ==
  IF shortcutSkipped(shortcut) THEN Null
  ELSE Array([k \in DOMAIN ShortcutSizes |->
                pngImage(shortcutIconName(index, ShortcutSizes[k]), ShortcutSizes[k])])

\* Array.prototype.flat(): the elements of the nested arrays, every other
\* element (null included) as it is.
RECURSIVE flat(_)
flat(arr) ==
  IF arr = <<>> THEN <<>>
  ELSE (IF Head(arr).kind = "array" THEN Head(arr).items ELSE <<Head(arr)>>)
       \o flat(Tail(arr))

\* relativeTo, for a path without dot segments: the path itself without a
\* base, otherwise below the base taken as a directory.
relativeTo(base, path) ==
  IF ~truthy(base) THEN path
  ELSE IF base = "/" THEN <<"/">> \o path
  ELSE <<base, "/">> \o path

RECURSIVE dropNull(_)
dropNull(arr) ==
  IF arr = <<>> THEN <<>>
  ELSE (IF Head(arr) = Null THEN <<>> ELSE <<Head(arr)>>) \o dropNull(Tail(arr))

manifestShortcuts(base, list) ==
  dropNull([i \in DOMAIN list |->
    IF ~truthy(list[i].name) \/ ~truthy(list[i].url) THEN Null
    ELSE [name |-> list[i].name,
          url |-> list[i].url,
          icons |-> IF truthy(list[i].icon)
                      THEN Array([k \in DOMAIN ShortcutSizes |->
                             [src |-> relativeTo(base, shortcutIconName(i - 1, ShortcutSizes[k])),
                              sizes |-> <<ShortcutSizes[k], "x", ShortcutSizes[k]>>,
                              type |-> "image/png"]])
                      ELSE Null]])

\* The first shortcut from position k on whose computation has to wait for the
\* engine; the length + 1 when there is none.
nextWaiting(list, k) ==
  LET waiting == {j \in k..Len(list) : ~shortcutSkipped(list[j])}
  IN  IF waiting = {} THEN Len(list) + 1 ELSE SeqMin(waiting)

\* shortcutIcons up to its first wait for the engine: mapAsync calls the
\* computations; those of skipped shortcuts have resolved to null by then.
shortcutsStarted(plat, list) ==
  LET n == Len(list) IN
  IF mapAsyncSequential(plat)
    THEN LET stop == nextWaiting(list, 1)
             vals == [i \in 1..(stop - 1) |-> Null]
         IN  [states |-> [i \in 1..n |-> IF i < stop THEN "fulfilled"
                                          ELSE IF i = stop THEN "running" ELSE "idle"],
              values |-> vals,
              outcome |-> IF stop > n THEN Resolved(vals) ELSE Pending]
    ELSE LET states == [i \in 1..n |-> IF shortcutSkipped(list[i])
                                         THEN "fulfilled" ELSE "running"]
             vals == [i \in 1..n |-> IF shortcutSkipped(list[i]) THEN Null ELSE Empty]
         IN  [states |-> states, values |-> vals,
              outcome |-> promiseAllResolve(Pending, states, vals)]

\* createImages from line 96 on, with the local icons as they are by then.
AfterMaskable(now) ==
  IF Len(shortcuts) > 0
    THEN LET st == shortcutsStarted(platform, shortcuts)
         IN  /\ icons' = now
             /\ ststate' = st.states
             /\ svalues' = st.values
             /\ soutcome' = st.outcome
             /\ IF st.outcome.kind = "resolved"
                  THEN /\ apc' = "done"
                       /\ created' = [kind |-> "images",
                                      items |-> now \o flat(st.outcome.value)]
                  ELSE apc' = "shortcuts" /\ created' = created
    ELSE /\ icons' = now
         /\ apc' = "done"
         /\ created' = [kind |-> "images", items |-> now]
         /\ UNCHANGED <<ststate, svalues, soutcome>>

\* Lines 70-77: createImages up to the await of the first mapAsync.
CreateImagesCall ==
  /\ apc = "init"
  /\ apc' = "icons"
  /\ UNCHANGED <<platform, sourceset, selVars, planeVars, favVars, mapVars,
                 shortcuts, maskable, basePath, icons, ststate, svalues, soutcome,
                 created, manifest>>

\* Lines 73-101: the android-chrome icons are there.
IconsResolve ==
  /\ apc = "icons"
  /\ IF maskableIsSource(maskable)
       THEN /\ apc' = "maskable"
            /\ icons' = chromeIcons
            /\ UNCHANGED <<ststate, svalues, soutcome, created>>
       ELSE AfterMaskable(chromeIcons)
  /\ UNCHANGED <<platform, sourceset, selVars, planeVars, favVars, mapVars,
                 shortcuts, maskable, basePath, manifest>>

\* Lines 84-101: the maskable icons are there.
MaskableResolve ==
  /\ apc = "maskable"
  /\ AfterMaskable(icons \o maskableIcons)
  /\ UNCHANGED <<platform, sourceset, selVars, planeVars, favVars, mapVars,
                 shortcuts, maskable, basePath, manifest>>

\* A createFavicon or sourceImages of lines 73-92 rejects.
IconsReject ==
  /\ apc \in {"icons", "maskable"}
  /\ apc' = "failed"
  /\ created' = [kind |-> "error"]
  /\ UNCHANGED <<platform, sourceset, selVars, planeVars, favVars, mapVars,
                 shortcuts, maskable, basePath, icons, ststate, svalues, soutcome,
                 manifest>>

\* shortcutIcons after its mapAsync settled (line 142), and createImages after
\* shortcutIcons (lines 100-103).
ShortcutsContinue(before, outcome) ==
  IF before.kind # "pending" THEN UNCHANGED <<apc, created>>
  ELSE IF outcome.kind = "resolved"
    THEN /\ apc' = "done"
         /\ created' = [kind |-> "images", items |-> icons \o flat(outcome.value)]
    ELSE IF outcome.kind = "rejected"
      THEN apc' = "failed" /\ created' = [kind |-> "error"]
      ELSE UNCHANGED <<apc, created>>

\* The images of shortcut i are there (lines 130-139).
ShortcutFulfil(i) ==
  /\ ststate[i] = "running"
  /\ LET v == shortcutValue(shortcuts[i], i - 1)
         n == Len(shortcuts)
     IN
     IF mapAsyncSequential(platform)
       THEN LET stop == nextWaiting(shortcuts, i + 1)
                vals == Append(svalues, v) \o [k \in 1..(stop - i - 1) |-> Null]
                outcome == IF stop > n THEN Resolved(vals) ELSE soutcome
            IN  /\ svalues' = vals
                /\ ststate' = [j \in 1..n |-> IF j < stop THEN "fulfilled"
                                               ELSE IF j = stop THEN "running"
                                               ELSE ststate[j]]
                /\ soutcome' = outcome
                /\ ShortcutsContinue(soutcome, outcome)
       ELSE LET states == [ststate EXCEPT ![i] = "fulfilled"]
                vals == promiseAllStore(svalues, i, v)
                outcome == promiseAllResolve(soutcome, states, vals)
            IN  /\ svalues' = vals
                /\ ststate' = states
                /\ soutcome' = outcome
                /\ ShortcutsContinue(soutcome, outcome)
  /\ UNCHANGED <<platform, sourceset, selVars, planeVars, favVars, mapVars,
                 shortcuts, maskable, basePath, icons, manifest>>

\* sourceImages or a createFavicon of shortcut i rejects.
ShortcutReject(i) ==
  /\ ststate[i] = "running"
  /\ LET outcome == promiseReject(soutcome, [task |-> i, error |-> "RenderError"])
     IN  /\ ststate' = [ststate EXCEPT ![i] = "rejected"]
         /\ soutcome' = outcome
         /\ ShortcutsContinue(soutcome, outcome)
  /\ UNCHANGED <<platform, sourceset, selVars, planeVars, favVars, mapVars,
                 shortcuts, maskable, basePath, icons, svalues, manifest>>

\* createFiles: manifest() lists the shortcuts (lines 211-213).
CreateFiles ==
  /\ manifest = <<>>
  /\ Len(shortcuts) > 0
  /\ manifest' = <<manifestShortcuts(basePath, shortcuts)>>
  /\ UNCHANGED <<platform, sourceset, selVars, planeVars, favVars, mapVars,
                 shortcuts, maskable, basePath, apc, icons, ststate, svalues, soutcome,
                 created>>

NextAndroid ==
  \/ CreateImagesCall
  \/ IconsResolve
  \/ MaskableResolve
  \/ IconsReject
  \/ \E i \in DOMAIN ststate : ShortcutFulfil(i)
  \/ \E i \in DOMAIN ststate : ShortcutReject(i)
  \/ CreateFiles

ShortcutOptions ==
  [name : {Undefined, "Home"}, url : {Undefined, "/home"}, icon : {Undefined, "home.png"}]

InitAndroid ==
  /\ platform \in Platforms
  /\ sourceset \in SourceSets(1, PlaneMetadata)
  /\ SelectIdle
  /\ PlaneIdle
  /\ FavIdle
  /\ shortcuts \in UNION {[1..n -> ShortcutOptions] : n \in 0..MaxShortcuts}
  /\ maskable \in {JsBoolean(FALSE), JsBoolean(TRUE), JsString("maskable.png")}
  /\ basePath \in {Undefined, "/"}
  /\ apc = "init"
  /\ icons = <<>>
  /\ ststate = <<>>
  /\ svalues = <<>>
  /\ soutcome = NoOutcome
  /\ created = NoCreated
  /\ manifest = <<>>

SpecAndroid == InitAndroid /\ [][NextAndroid]_vars

\* The six image names of the shortcut at position pos (from 1).
ClaimShortcutNames(pos) ==
  [k \in 1..6 |-> <<"shortcut", pos, "-", ShortcutSizes[k], "x", ShortcutSizes[k], ".png">>]

ClaimComplete(shortcut) ==
  /\ shortcut.name # Undefined
  /\ shortcut.url # Undefined
  /\ shortcut.icon # Undefined

RECURSIVE ClaimShortcutImageNames(_)
ClaimShortcutImageNames(pos) ==
  IF pos > Len(shortcuts) THEN <<>>
  ELSE (IF ClaimComplete(shortcuts[pos]) THEN ClaimShortcutNames(pos) ELSE <<>>)
       \o ClaimShortcutImageNames(pos + 1)

\* The images createImages returned after the android-chrome and maskable ones.
ReturnedShortcutImages ==
  SubSeq(created.items, Len(icons) + 1, Len(created.items))

\* C10: every element of the list createImages returns is a non-null image
\* with a name; a skipped shortcut contributes nothing and every shortcut with
\* name, url and icon contributes its six images shortcut<position>-<size>.png,
\* the names the manifest lists as the icon src of that shortcut.
C10_NoNullImages ==
  (apc = "done" /\ created.kind = "images") =>
    /\ \A k \in DOMAIN created.items :
         created.items[k] # Null /\ created.items[k].kind = "image"
    /\ Len(ReturnedShortcutImages) = Len(ClaimShortcutImageNames(1))
    /\ \A k \in DOMAIN ReturnedShortcutImages :
         /\ ReturnedShortcutImages[k].kind = "image"
         /\ ReturnedShortcutImages[k].name = ClaimShortcutImageNames(1)[k]
    /\ (manifest # <<>> /\ basePath = Undefined) =>
         \A m \in DOMAIN manifest[1] :
           manifest[1][m].icons # Null =>
             \A k \in DOMAIN manifest[1][m].icons.items :
               \E j \in DOMAIN created.items :
                 /\ created.items[j] # Null
                 /\ created.items[j].name = manifest[1][m].icons.items[k].src

(***************************************************************************)
(* Specification SpecSelect: bestSource applied to every bounded source    *)
(* list and target size.                                                   *)
(***************************************************************************)
InitSelect ==
  /\ platform = "linux"
  /\ sourceset \in SourceSets(MaxSources, Metadata)
  /\ selWidth \in TargetSides
  /\ selHeight \in TargetSides
  /\ selected = NoSource
  /\ PlaneIdle
  /\ FavIdle
  /\ AndroidIdle

BestSourceCall ==
  /\ selected = NoSource
  /\ selected' = bestSource(sourceset, selWidth, selHeight)
  /\ UNCHANGED <<platform, sourceset, selWidth, selHeight, planeVars, favVars, mapVars, andVars>>

NextSelect == BestSourceCall

SpecSelect == InitSelect /\ [][NextSelect]_vars

\* The key tuple of the claims, written out independently of sourceKey.

ClaimKey(icon) ==
  LET s == LargerSide(icon.metadata.width, icon.metadata.height)
      t == LargerSide(selWidth, selHeight)
  IN  << IF icon.metadata.format = "svg" THEN 0 ELSE 1,
         IF s >= t THEN 0 ELSE 1,
         IF s >= t THEN s - t ELSE t - s >>

LexLeq(k, l) ==
  \/ k[1] < l[1]
  \/ k[1] = l[1] /\ k[2] < l[2]
  \/ k[1] = l[1] /\ k[2] = l[2] /\ k[3] <= l[3]

MinimalPositions ==
  {i \in DOMAIN sourceset :
     \A j \in DOMAIN sourceset : LexLeq(ClaimKey(sourceset[i]), ClaimKey(sourceset[j]))}

\* C2: bestSource returns a member of the list whose key tuple is
\* lexicographically <= the key tuple of every member; a vector source is
\* returned whenever the list contains one.
C2_BestSourceIsMinimum ==
  selected # NoSource =>
    /\ \E i \in MinimalPositions : selected = sourceset[i]
    /\ (\E i \in DOMAIN sourceset : sourceset[i].metadata.format = "svg")
         => selected.metadata.format = "svg"

\* C2 witness: a vector source that needs upscaling is picked over a raster
\* source of exactly the target size.
C2_Witness ==
  /\ selected # NoSource
  /\ selected.metadata.format = "svg"
  /\ LargerSide(selected.metadata.width, selected.metadata.height)
       < LargerSide(selWidth, selHeight)
  /\ \E i \in DOMAIN sourceset :
       /\ sourceset[i].metadata.format = "png"
       /\ LargerSide(sourceset[i].metadata.width, sourceset[i].metadata.height)
            = LargerSide(selWidth, selHeight)

\* C3 (as claimed): among several sources with the minimal key tuple, the one
\* that appears first in the list is returned.
C3_TieReturnsFirst ==
  (selected # NoSource /\ Cardinality(MinimalPositions) >= 2) =>
    selected = sourceset[CHOOSE i \in MinimalPositions :
                            \A j \in MinimalPositions : i <= j]

\* C3 (amended): among several sources with the minimal key tuple, the one
\* that appears last in the list is returned.
C3_TieReturnsLast ==
  (selected # NoSource /\ Cardinality(MinimalPositions) >= 2) =>
    selected = sourceset[CHOOSE i \in MinimalPositions :
                            \A j \in MinimalPositions : i >= j]

\* C3 witness: three sources tie on the minimal key and a source was returned.
C3_Witness ==
  /\ selected # NoSource
  /\ Cardinality(MinimalPositions) >= 3

=============================================================================
